---- MODULE Spec2Model ----
(***************************************************************************)
(* RetriableClientManager (internal/support/docker): the registry of       *)
(* connected hosts, the retry pass that promotes pending agent endpoints,  *)
(* the reader/writer lock around it and the subscriber fan-out.            *)
(***************************************************************************)
EXTENDS Integers, Sequences, FiniteSets, Bags, TLC

\* ------------------------------------------------------------- bounds
\* The longest agents list and the most pre-built clients a constructor call is
\* given; the longest agents list of the registries that concurrent callers
\* share; the number of Subscribe calls made.
MaxAgents == 2
MaxClients == 1
MaxPending == 1
MaxSubscribes == 2

Endpoints == {"e1", "e2"}
HostIDs == {"h1", "h2"}
Ctxs == {"c1", "c2"}
Chans == {"ch1", "ch2"}
Threads == {"t1", "t2"}
NoThread == "none"

\* ------------------------------------------------------------- values
Elems(s) == {s[i] : i \in 1..Len(s)}

SeqsUpTo(S, n) == UNION {[1..k -> S] : k \in 0..n}

Count(e, s) == Cardinality({i \in 1..Len(s) : s[i] = e})

\* What one attempt (agent.NewClient, then agent.Host) can do: the connection
\* build fails, the metadata fetch fails, or the host reports an identity.
AttemptOutcomes ==
    {[err |-> "connect", id |-> ""], [err |-> "host", id |-> ""]}
        \cup {[err |-> "", id |-> h] : h \in HostIDs}

\* What client.Host() of a pre-built client can do.
HostOutcomes == {[err |-> "host", id |-> ""]} \cup {[err |-> "", id |-> h] : h \in HostIDs}

\* A ClientService object: the identity its host reports, the endpoint it was
\* built from ("" for a pre-built client), and which object it is: the ord-th
\* one processed by the constructor, or the one made by the promo-th promotion.
PrebuiltClient(id, ord) == [id |-> id, endpoint |-> "", ord |-> ord, promo |-> 0]

NewAgentService(id, endpoint, ord, promo) ==
    [id |-> id, endpoint |-> endpoint, ord |-> ord, promo |-> promo]

EmptyMap == [x \in {} |-> 0]

\* ------------------------------------------------------------- constructor
\* MapPutIfAbsent without the duplicate check: the later client overwrites.
MapPutAlways(clientMap, id, client) ==
    [k \in DOMAIN clientMap \cup {id} |-> IF k = id THEN client ELSE clientMap[k]]

\* clientMap[host.ID] = client unless the key is taken (duplicate: warn, drop).
MapPutIfAbsent(clientMap, id, client) ==
    IF id \in DOMAIN clientMap THEN clientMap
    ELSE [k \in DOMAIN clientMap \cup {id} |->
            IF k = id THEN client ELSE clientMap[k]]

\* m.clients[host.ID] = client: overwrites.
MapPut(clientMap, id, client) ==
    [k \in DOMAIN clientMap \cup {id} |-> IF k = id THEN client ELSE clientMap[k]]

\* NewClientsLoop without the continue: a client whose Host() failed is stored
\* under the identity of the zero Host.
RECURSIVE NewClientsLoopKeepsFailed(_, _, _)
NewClientsLoopKeepsFailed(cs, i, clientMap) ==
    IF i > Len(cs) THEN clientMap
    ELSE NewClientsLoopKeepsFailed(cs, i + 1,
            MapPutIfAbsent(clientMap, cs[i].id, PrebuiltClient(cs[i].id, i)))

\* The loop over the pre-built clients; cs[i] is what the i-th client.Host() did.
RECURSIVE NewClientsLoop(_, _, _)
NewClientsLoop(cs, i, clientMap) ==
    IF i > Len(cs) THEN clientMap
    ELSE IF cs[i].err # "" THEN NewClientsLoop(cs, i + 1, clientMap)
    ELSE NewClientsLoop(cs, i + 1,
            MapPutIfAbsent(clientMap, cs[i].id, PrebuiltClient(cs[i].id, i)))

\* NewAgentsLoop with the second failed = append(failed, endpoint) left out: an
\* endpoint whose metadata fetch fails is dropped instead of kept pending.
RECURSIVE NewAgentsLoopDropsHostError(_, _, _, _, _, _)
NewAgentsLoopDropsHostError(agents, outs, base, i, clientMap, failed) ==
    IF i > Len(agents) THEN [clients |-> clientMap, failedAgents |-> failed]
    ELSE IF outs[i].err = "connect"
    THEN NewAgentsLoopDropsHostError(agents, outs, base, i + 1, clientMap,
            Append(failed, agents[i]))
    ELSE IF outs[i].err = "host"
    THEN NewAgentsLoopDropsHostError(agents, outs, base, i + 1, clientMap, failed)
    ELSE NewAgentsLoopDropsHostError(agents, outs, base, i + 1,
            MapPutIfAbsent(clientMap, outs[i].id,
                NewAgentService(outs[i].id, agents[i], base + i, 0)),
            failed)

\* The loop over the agent endpoints; outs[i] is what the attempt on agents[i] did.
RECURSIVE NewAgentsLoop(_, _, _, _, _, _)
NewAgentsLoop(agents, outs, base, i, clientMap, failed) ==
    IF i > Len(agents) THEN [clients |-> clientMap, failedAgents |-> failed]
    ELSE IF outs[i].err # ""
    THEN NewAgentsLoop(agents, outs, base, i + 1, clientMap, Append(failed, agents[i]))
    ELSE NewAgentsLoop(agents, outs, base, i + 1,
            MapPutIfAbsent(clientMap, outs[i].id,
                NewAgentService(outs[i].id, agents[i], base + i, 0)),
            failed)

NewRetriableClientManager(agents, outs, cs) ==
    NewAgentsLoop(agents, outs, Len(cs), 1, NewClientsLoop(cs, 1, EmptyMap), <<>>)

\* The constructor's arguments and what the environment answered.
NewArgs ==
    {[agents |-> a, outs |-> o, cs |-> c] :
        a \in SeqsUpTo(Endpoints, MaxAgents),
        o \in SeqsUpTo(AttemptOutcomes, MaxAgents),
        c \in SeqsUpTo(HostOutcomes, MaxClients)}

\* The arguments once the constructor has returned: they are gone.
NoArgs == [agents |-> <<>>, outs |-> <<>>, cs |-> <<>>, live |-> FALSE]

\* ------------------------------------------------------------- hosts
\* docker.Host as agent.Host() returns it for a reachable host; the fetch does
\* not set Available.
HostOf(id, endpoint) ==
    [ID |-> id, Name |-> id, Endpoint |-> endpoint, Available |-> FALSE,
     Type |-> IF endpoint = "" THEN "local" ELSE "agent"]

\* The zero docker.Host, returned beside an error.
ZeroHost == [ID |-> "", Name |-> "", Endpoint |-> "", Available |-> FALSE, Type |-> ""]

\* The synthetic entry Hosts() appends for a pending endpoint.
PendingHost(endpoint) ==
    [ID |-> endpoint, Name |-> endpoint, Endpoint |-> endpoint,
     Available |-> FALSE, Type |-> "agent"]

\* The callback of lop.Map in Hosts(): the client's host, Available set from err.
MapHost(client, ok) ==
    IF ok THEN [HostOf(client.id, client.endpoint) EXCEPT !.Available = TRUE]
    ELSE [ZeroHost EXCEPT !.Available = FALSE]

\* ------------------------------------------------------------- state
VARIABLES
    clients,        \* m.clients: host identity -> ClientService
    failedAgents,   \* m.failedAgents
    args,           \* the constructor's arguments, until it returns
    mu,             \* m.mu: [w: the thread holding Lock, r: the threads holding RLock]
    pc,             \* per thread: where it is in the operation it called
    loc,            \* per thread: the locals and result of that operation
    subscribers,    \* m.subscribers: context -> channel
    cancelled,      \* the contexts whose Done() channel is closed
    cleaners,       \* per context: Subscribe's goroutines still waiting to Delete
    tasks,          \* the delivery goroutines, running and ended: a bag of
                    \* [ctx, ch, host, promo, late, stale, st]
    npromo,         \* promotions made so far (numbers the objects they create)
    nsub,           \* Subscribe calls made so far
    replaced        \* per context: the channels its entry held and holds no more

vars == <<clients, failedAgents, args, mu, pc, loc, subscribers, cancelled,
          cleaners, tasks, npromo, nsub, replaced>>

regVars == <<clients, failedAgents, mu, pc, loc, npromo>>
subVars == <<subscribers, cancelled, cleaners, nsub, replaced>>

ZeroLoc ==
    [rng |-> <<>>, i |-> 0, newFailed |-> <<>>, errors |-> <<>>, attempts |-> <<>>,
     arg |-> "", list |-> {}, ok |-> FALSE, live |-> {}, pending |-> <<>>,
     nclients |-> 0, nfailed |-> 0, seen |-> {}, base |-> EmptyMap, ntasks |-> 0,
     up |-> {}, found |-> <<>>]

Published == ~args.live

\* The state in which NewRetriableClientManager returns, for every argument list
\* and every answer of the environment.
Init ==
    /\ \E a \in NewArgs :
        /\ Len(a.outs) = Len(a.agents)
        /\ args = [agents |-> a.agents, outs |-> a.outs, cs |-> a.cs, live |-> TRUE]
        /\ LET m == NewRetriableClientManager(a.agents, a.outs, a.cs)
           IN  /\ clients = m.clients
               /\ failedAgents = m.failedAgents
    /\ mu = [w |-> NoThread, r |-> {}]
    /\ pc = [t \in Threads |-> "idle"]
    /\ loc = [t \in Threads |-> ZeroLoc]
    /\ subscribers = EmptyMap
    /\ cancelled = {}
    /\ cleaners = [c \in Ctxs |-> 0]
    /\ tasks = EmptyBag
    /\ npromo = 0
    /\ nsub = 0
    /\ replaced = [c \in Ctxs |-> {}]

\* return &RetriableClientManager{...}: the registry is handed to its callers.
NewReturn ==
    /\ args.live
    /\ args' = NoArgs
    /\ UNCHANGED <<regVars, subVars, tasks>>

\* ------------------------------------------------------------- calls
Ops == {"RetryAndList", "List", "Find", "Hosts", "String"}

\* Where each operation starts: RetryAndList at m.mu.Lock(), List and Find at
\* m.mu.RLock(), Hosts at the RLock of the List() it calls, String at its reads.
Entry(op) ==
    CASE op = "RetryAndList" -> "r_lock"
      [] op = "List" -> "l_rlock"
      [] op = "Find" -> "f_rlock"
      [] op = "Hosts" -> "h_rlock"
      [] op = "String" -> "s_clients"

\* A goroutine calls a public operation (Find with the identity it looks up).
\* History kept beside the locals: seen, the contexts already cancelled when the
\* call began; base and ntasks, m.clients and the number of delivery goroutines
\* ever started, as they were when the pass took the lock; attempts, what each
\* attempt of the pass did; up, the clients whose Host() answered in Hosts();
\* found, m.failedAgents as it was when Hosts() was called.
Call(t, op) ==
    /\ Published
    /\ pc[t] = "idle"
    /\ pc' = [pc EXCEPT ![t] = Entry(op)]
    /\ \E id \in (IF op = "Find" THEN HostIDs ELSE {""}) :
         loc' = [loc EXCEPT ![t] =
                    [ZeroLoc EXCEPT !.arg = id, !.seen = cancelled,
                                    !.found = IF op = "Hosts" THEN failedAgents ELSE <<>>]]
    /\ UNCHANGED <<clients, failedAgents, args, mu, npromo, subVars, tasks>>

\* The operation returns: its frame is gone.
Return(t) ==
    /\ pc[t] \in {"r_done", "l_done", "f_done", "h_done", "s_done"}
    /\ pc' = [pc EXCEPT ![t] = "idle"]
    /\ loc' = [loc EXCEPT ![t] = ZeroLoc]
    /\ UNCHANGED <<clients, failedAgents, args, mu, npromo, subVars, tasks>>

\* ------------------------------------------------------------- RetryAndList
\* Lock that does not wait for the holders of the lock.
LockWithoutExclusion(t) ==
    /\ pc[t] = "r_lock"
    /\ mu' = [mu EXCEPT !.w = t]
    /\ IF Len(failedAgents) > 0
       THEN /\ pc' = [pc EXCEPT ![t] = "r_loop"]
            /\ loc' = [loc EXCEPT ![t].rng = failedAgents, ![t].i = 1,
                                  ![t].base = clients,
                                  ![t].ntasks = BagCardinality(tasks)]
       ELSE /\ pc' = [pc EXCEPT ![t] = "r_unlock"]
            /\ loc' = [loc EXCEPT ![t].base = clients,
                                  ![t].ntasks = BagCardinality(tasks)]
    /\ UNCHANGED <<clients, failedAgents, args, npromo, subVars, tasks>>

\* m.mu.Lock(); errors := make(...); if len(m.failedAgents) > 0 { newFailed := ...;
\* the range expression m.failedAgents is evaluated once, here.
Lock(t) ==
    /\ pc[t] = "r_lock"
    /\ mu.w = NoThread /\ mu.r = {}
    /\ mu' = [mu EXCEPT !.w = t]
    /\ IF Len(failedAgents) > 0
       THEN /\ pc' = [pc EXCEPT ![t] = "r_loop"]
            /\ loc' = [loc EXCEPT ![t].rng = failedAgents, ![t].i = 1,
                                  ![t].base = clients,
                                  ![t].ntasks = BagCardinality(tasks)]
       ELSE /\ pc' = [pc EXCEPT ![t] = "r_unlock"]
            /\ loc' = [loc EXCEPT ![t].base = clients,
                                  ![t].ntasks = BagCardinality(tasks)]
    /\ UNCHANGED <<clients, failedAgents, args, npromo, subVars, tasks>>

\* RangeSubscribers stopping after the first entry (the callback returning false).
RangeFirstSubscriber(t, host, promo) ==
    IF DOMAIN subscribers = {} THEN EmptyBag
    ELSE LET c == CHOOSE x \in DOMAIN subscribers : TRUE
         IN  SetToBag({[ctx |-> c, ch |-> subscribers[c],
                        host |-> [host EXCEPT !.Available = TRUE],
                        promo |-> promo, late |-> c \in cancelled,
                        stale |-> c \in loc[t].seen, st |-> "select"]})

\* m.subscribers.Range(...): one delivery goroutine per entry, each holding the
\* host with Available = true, the entry's channel and its context. The entries
\* are those of the map at this moment. late: the context is already cancelled;
\* stale: it was cancelled before RetryAndList was called.
RangeSubscribers(t, host, promo) ==
    SetToBag({[ctx |-> c, ch |-> subscribers[c],
               host |-> [host EXCEPT !.Available = TRUE],
               promo |-> promo, late |-> c \in cancelled,
               stale |-> c \in loc[t].seen, st |-> "select"] :
              c \in DOMAIN subscribers})

\* Promote making the promoted client the only one.
PromoteAlone(clientMap, id, endpoint, promo) ==
    MapPut(EmptyMap, id, NewAgentService(id, endpoint, 0, promo))

\* What a successful attempt does to m.clients.
Promote(clientMap, id, endpoint, promo) ==
    MapPut(clientMap, id, NewAgentService(id, endpoint, 0, promo))

\* Attempt leaving the loop at the first failure (break instead of continue).
AttemptBreaks(t) ==
    /\ pc[t] = "r_loop"
    /\ LET endpoint == loc[t].rng[loc[t].i]
           next == IF loc[t].i = Len(loc[t].rng) THEN "r_commit" ELSE "r_loop"
       IN  \E o \in AttemptOutcomes :
             IF o.err # ""
             THEN /\ pc' = [pc EXCEPT ![t] = "r_commit"]
                  /\ loc' = [loc EXCEPT
                         ![t].errors = Append(@, [endpoint |-> endpoint, err |-> o.err]),
                         ![t].newFailed = Append(@, endpoint),
                         ![t].attempts = Append(@, [endpoint |-> endpoint, err |-> o.err,
                                                    id |-> "", promo |-> 0,
                                                    subs |-> EmptyMap]),
                         ![t].i = @ + 1]
                  /\ UNCHANGED <<clients, npromo, tasks>>
             ELSE /\ pc' = [pc EXCEPT ![t] = next]
                  /\ npromo' = npromo + 1
                  /\ clients' = Promote(clients, o.id, endpoint, npromo + 1)
                  /\ tasks' = tasks (+) RangeSubscribers(t, HostOf(o.id, endpoint), npromo + 1)
                  /\ loc' = [loc EXCEPT
                         ![t].attempts = Append(@, [endpoint |-> endpoint, err |-> "",
                                                    id |-> o.id, promo |-> npromo + 1,
                                                    subs |-> subscribers]),
                         ![t].i = @ + 1]
    /\ UNCHANGED <<failedAgents, args, mu, subVars>>

\* One iteration of the loop over the pending endpoints.
Attempt(t) ==
    /\ pc[t] = "r_loop"
    /\ LET endpoint == loc[t].rng[loc[t].i]
           next == IF loc[t].i = Len(loc[t].rng) THEN "r_commit" ELSE "r_loop"
       IN  \E o \in AttemptOutcomes :
             /\ pc' = [pc EXCEPT ![t] = next]
             /\ IF o.err # ""
                THEN /\ loc' = [loc EXCEPT
                            ![t].errors = Append(@, [endpoint |-> endpoint, err |-> o.err]),
                            ![t].newFailed = Append(@, endpoint),
                            ![t].attempts = Append(@, [endpoint |-> endpoint, err |-> o.err,
                                                       id |-> "", promo |-> 0,
                                                       subs |-> EmptyMap]),
                            ![t].i = @ + 1]
                     /\ UNCHANGED <<clients, npromo, tasks>>
                ELSE /\ npromo' = npromo + 1
                     /\ clients' = Promote(clients, o.id, endpoint, npromo + 1)
                     /\ tasks' = tasks (+) RangeSubscribers(t, HostOf(o.id, endpoint), npromo + 1)
                     /\ loc' = [loc EXCEPT
                            ![t].attempts = Append(@, [endpoint |-> endpoint, err |-> "",
                                                       id |-> o.id, promo |-> npromo + 1,
                                                       subs |-> subscribers]),
                            ![t].i = @ + 1]
    /\ UNCHANGED <<failedAgents, args, mu, subVars>>

\* Commit storing the list the pass started from instead of the rebuilt one.
CommitKeepsPending(t) ==
    /\ pc[t] = "r_commit"
    /\ failedAgents' = loc[t].rng
    /\ pc' = [pc EXCEPT ![t] = "r_unlock"]
    /\ UNCHANGED <<clients, args, mu, loc, npromo, subVars, tasks>>

\* Commit storing the rebuilt list back to front.
CommitReversed(t) ==
    /\ pc[t] = "r_commit"
    /\ failedAgents' = [k \in 1..Len(loc[t].newFailed) |->
                            loc[t].newFailed[Len(loc[t].newFailed) + 1 - k]]
    /\ pc' = [pc EXCEPT ![t] = "r_unlock"]
    /\ UNCHANGED <<clients, args, mu, loc, npromo, subVars, tasks>>

\* m.failedAgents = newFailed
Commit(t) ==
    /\ pc[t] = "r_commit"
    /\ failedAgents' = loc[t].newFailed
    /\ pc' = [pc EXCEPT ![t] = "r_unlock"]
    /\ UNCHANGED <<clients, args, mu, loc, npromo, subVars, tasks>>

\* Unlock waiting for the deliveries the pass started to end first.
UnlockAfterDelivery(t) ==
    /\ pc[t] = "r_unlock"
    /\ \A k \in BagToSet(tasks) : k.st # "select"
    /\ mu' = [mu EXCEPT !.w = NoThread]
    /\ pc' = [pc EXCEPT ![t] = "r_rlock"]
    /\ UNCHANGED <<clients, failedAgents, args, loc, npromo, subVars, tasks>>

\* m.mu.Unlock(); what follows is return m.List(), errors.
Unlock(t) ==
    /\ pc[t] = "r_unlock"
    /\ mu' = [mu EXCEPT !.w = NoThread]
    /\ pc' = [pc EXCEPT ![t] = "r_rlock"]
    /\ UNCHANGED <<clients, failedAgents, args, loc, npromo, subVars, tasks>>

\* ------------------------------------------------------------- readers
\* m.mu.RLock(), in List (called directly, by RetryAndList or by Hosts) and Find.
\* A reader waits only for the holder of the exclusive lock; that sync.RWMutex
\* also holds new readers back while a writer waits only removes interleavings.
RLock(t) ==
    /\ pc[t] \in {"r_rlock", "l_rlock", "f_rlock", "h_rlock"}
    /\ mu.w = NoThread
    /\ mu' = [mu EXCEPT !.r = @ \cup {t}]
    /\ pc' = [pc EXCEPT ![t] =
                CASE pc[t] = "r_rlock" -> "r_list"
                  [] pc[t] = "l_rlock" -> "l_list"
                  [] pc[t] = "f_rlock" -> "f_find"
                  [] pc[t] = "h_rlock" -> "h_list"]
    /\ UNCHANGED <<clients, failedAgents, args, loc, npromo, subVars, tasks>>

\* ListOf answering from the clients the constructor stored only.
ListOfConstructed(clientMap) ==
    {clientMap[k] : k \in {x \in DOMAIN clientMap : clientMap[x].promo = 0}}

\* The slice List() builds: every value of m.clients (in the map's order, which
\* the model leaves out).
ListOf(clientMap) == {clientMap[k] : k \in DOMAIN clientMap}

\* The body of List() and its deferred RUnlock.
List(t) ==
    /\ pc[t] \in {"r_list", "l_list", "h_list"}
    /\ loc' = [loc EXCEPT ![t].list = ListOf(clients)]
    /\ mu' = [mu EXCEPT !.r = @ \ {t}]
    /\ pc' = [pc EXCEPT ![t] =
                CASE pc[t] = "r_list" -> "r_done"
                  [] pc[t] = "l_list" -> "l_done"
                  [] pc[t] = "h_list" -> "h_map"]
    /\ UNCHANGED <<clients, failedAgents, args, npromo, subVars, tasks>>

\* client, ok := m.clients[id], and the deferred RUnlock.
Find(t) ==
    /\ pc[t] = "f_find"
    /\ loc' = [loc EXCEPT
                ![t].ok = loc[t].arg \in DOMAIN clients,
                ![t].list = IF loc[t].arg \in DOMAIN clients
                            THEN {clients[loc[t].arg]} ELSE {}]
    /\ mu' = [mu EXCEPT !.r = @ \ {t}]
    /\ pc' = [pc EXCEPT ![t] = "f_done"]
    /\ UNCHANGED <<clients, failedAgents, args, npromo, subVars, tasks>>

Garbage == "?"

\* What a read of m.failedAgents made without the lock can return. The slice
\* header is several words: while a writer stands at m.failedAgents = newFailed
\* the read may also mix the two headers (the old array cut to the new length,
\* or the new array read to the old length, past its end).
RacyFailedAgents ==
    {failedAgents} \cup
    UNION {LET nf == loc[w].newFailed
               n == Len(failedAgents) - Len(nf)
           IN  {nf, SubSeq(failedAgents, 1, Len(nf)),
                nf \o [k \in 1..n |-> Garbage]} :
           w \in {u \in Threads : pc[u] = "r_commit"}}

\* LiveHosts leaving out the clients whose Host() call failed.
LiveHostsDropsFailed(list, up) ==
    {[client |-> c, host |-> MapHost(c, TRUE)] : c \in list \cap up}

\* The hosts lop.Map returns for the clients List() gave: one per client.
LiveHosts(list, up) == {[client |-> c, host |-> MapHost(c, c \in up)] : c \in list}

\* The entries appended for the pending endpoints read.
PendingHosts(failed) == [k \in 1..Len(failed) |-> PendingHost(failed[k])]

\* The rest of Hosts(): lop.Map over the clients (up: those whose Host() call
\* succeeds), then the range over m.failedAgents, read without the lock.
Hosts(t) ==
    /\ pc[t] = "h_map"
    /\ \E up \in SUBSET loc[t].list, failed \in RacyFailedAgents :
         loc' = [loc EXCEPT ![t].live = LiveHosts(loc[t].list, up),
                            ![t].pending = PendingHosts(failed),
                            ![t].up = up]
    /\ pc' = [pc EXCEPT ![t] = "h_done"]
    /\ UNCHANGED <<clients, failedAgents, args, mu, npromo, subVars, tasks>>

\* String(): len(m.clients), then len(m.failedAgents), neither under the lock.
StringClients(t) ==
    /\ pc[t] = "s_clients"
    /\ loc' = [loc EXCEPT ![t].nclients = Cardinality(DOMAIN clients)]
    /\ pc' = [pc EXCEPT ![t] = "s_failed"]
    /\ UNCHANGED <<clients, failedAgents, args, mu, npromo, subVars, tasks>>

StringFailed(t) ==
    /\ pc[t] = "s_failed"
    /\ \E failed \in RacyFailedAgents :
         loc' = [loc EXCEPT ![t].nfailed = Len(failed)]
    /\ pc' = [pc EXCEPT ![t] = "s_done"]
    /\ UNCHANGED <<clients, failedAgents, args, mu, npromo, subVars, tasks>>

\* ------------------------------------------------------------- subscribers
\* The channels the entry of c held before a Store of ch.
Replaced(c, ch) ==
    (replaced[c] \cup (IF c \in DOMAIN subscribers THEN {subscribers[c]} ELSE {})) \ {ch}

\* Subscribe replaying the hosts already connected to the new subscriber.
SubscribeReplays(c, ch) ==
    /\ Published
    /\ nsub < MaxSubscribes
    /\ nsub' = nsub + 1
    /\ subscribers' = MapPut(subscribers, c, ch)
    /\ replaced' = [replaced EXCEPT ![c] = Replaced(c, ch)]
    /\ cleaners' = [cleaners EXCEPT ![c] = @ + 1]
    /\ tasks' = tasks (+) SetToBag({[ctx |-> c, ch |-> ch,
                    host |-> [HostOf(id, clients[id].endpoint) EXCEPT !.Available = TRUE],
                    promo |-> clients[id].promo, late |-> c \in cancelled,
                    stale |-> FALSE, st |-> "select"] : id \in DOMAIN clients})
    /\ UNCHANGED <<regVars, args, cancelled>>

\* Subscribe keeping the channel already stored under the context.
SubscribeKeepsFirst(c, ch) ==
    /\ Published
    /\ nsub < MaxSubscribes
    /\ nsub' = nsub + 1
    /\ subscribers' = MapPutIfAbsent(subscribers, c, ch)
    /\ replaced' = [replaced EXCEPT ![c] = Replaced(c, ch)]
    /\ cleaners' = [cleaners EXCEPT ![c] = @ + 1]
    /\ UNCHANGED <<regVars, args, cancelled, tasks>>

\* m.subscribers.Store(ctx, channel), and the goroutine that waits for ctx.Done().
Subscribe(c, ch) ==
    /\ Published
    /\ nsub < MaxSubscribes
    /\ nsub' = nsub + 1
    /\ subscribers' = MapPut(subscribers, c, ch)
    /\ replaced' = [replaced EXCEPT ![c] = Replaced(c, ch)]
    /\ cleaners' = [cleaners EXCEPT ![c] = @ + 1]
    /\ UNCHANGED <<regVars, args, cancelled, tasks>>

\* The owner of a context cancels it: ctx.Done() is closed from now on.
Cancel(c) ==
    /\ Published
    /\ c \notin cancelled
    /\ cancelled' = cancelled \cup {c}
    /\ UNCHANGED <<regVars, args, subscribers, cleaners, nsub, replaced, tasks>>

MapDelete(f, k) == [x \in DOMAIN f \ {k} |-> f[x]]

\* Cleanup ending without its Delete.
CleanupWithoutDelete(c) ==
    /\ cleaners[c] > 0
    /\ c \in cancelled
    /\ cleaners' = [cleaners EXCEPT ![c] = @ - 1]
    /\ UNCHANGED <<regVars, args, cancelled, nsub, subscribers, replaced, tasks>>

\* <-ctx.Done(); m.subscribers.Delete(ctx), in the goroutine Subscribe started.
Cleanup(c) ==
    /\ cleaners[c] > 0
    /\ c \in cancelled
    /\ subscribers' = MapDelete(subscribers, c)
    /\ replaced' = [replaced EXCEPT ![c] = {}]
    /\ cleaners' = [cleaners EXCEPT ![c] = @ - 1]
    /\ UNCHANGED <<regVars, args, cancelled, nsub, tasks>>

Selecting == {k \in BagToSet(tasks) : k.st = "select"}

\* Finish leaving the goroutine in its select as well.
FinishKeepsRunning(k, st) == tasks (+) SetToBag({[k EXCEPT !.st = st]})

\* The delivery goroutine k leaves its select by the case st and ends.
Finish(k, st) == (tasks (-) SetToBag({k})) (+) SetToBag({[k EXCEPT !.st = st]})

\* select: case channel <- host. The send goes through when the receiving side
\* takes the value (or the channel has room).
Send(k) ==
    /\ k \in Selecting
    /\ tasks' = Finish(k, "sent")
    /\ UNCHANGED <<regVars, args, subVars>>

\* select: case <-ctx.Done(). The goroutine ends without sending.
Abandon(k) ==
    /\ k \in Selecting
    /\ k.ctx \in cancelled
    /\ tasks' = Finish(k, "abandoned")
    /\ UNCHANGED <<regVars, args, subVars>>

\* ------------------------------------------------------------- specification
ThreadStep(t) ==
    \/ \E op \in Ops : Call(t, op)
    \/ Lock(t)
    \/ Attempt(t)
    \/ Commit(t)
    \/ Unlock(t)
    \/ RLock(t)
    \/ List(t)
    \/ Find(t)
    \/ Hosts(t)
    \/ StringClients(t)
    \/ StringFailed(t)
    \/ Return(t)

SubscriberStep ==
    \/ \E c \in Ctxs, ch \in Chans : Subscribe(c, ch)
    \/ \E c \in Ctxs : Cancel(c)
    \/ \E c \in Ctxs : Cleanup(c)
    \/ \E k \in Selecting : Send(k)
    \/ \E k \in Selecting : Abandon(k)

\* The steps of a goroutine that only ever calls RetryAndList.
RetryStep(t) ==
    \/ Call(t, "RetryAndList")
    \/ Lock(t)
    \/ Attempt(t)
    \/ Commit(t)
    \/ Unlock(t)
    \/ RLock(t)
    \/ List(t)
    \/ Return(t)

Next ==
    \/ NewReturn
    \/ \E t \in Threads : ThreadStep(t)
    \/ SubscriberStep

\* Everything together.
Spec == Init /\ [][Next]_vars

\* The registry under concurrent callers, nobody subscribed; built from at most
\* MaxPending endpoints.
InitRegistry == Init /\ Len(args.agents) <= MaxPending

NextRegistry ==
    \/ NewReturn
    \/ \E t \in Threads : ThreadStep(t)

SpecRegistry == InitRegistry /\ [][NextRegistry]_vars

\* The registry with a single caller: its calls come one after another.
Publisher == "t1"

NextSeq ==
    \/ NewReturn
    \/ ThreadStep(Publisher)

SpecSeq == Init /\ [][NextSeq]_vars

\* The fan-out: one goroutine retrying, subscribers coming, cancelling and
\* receiving; the registry built from no endpoint or from one, unreachable at
\* construction, and no pre-built client.
FanoutAgents == {<<>>, <<"e1">>}

InitFanout ==
    /\ Init
    /\ args.cs = <<>>
    /\ args.agents \in FanoutAgents
    /\ \A i \in 1..Len(args.outs) : args.outs[i].err # ""

NextFanout ==
    \/ NewReturn
    \/ RetryStep(Publisher)
    \/ SubscriberStep

SpecFanout == InitFanout /\ [][NextFanout]_vars

\* The goroutine Subscribe starts is scheduled: once its context is done it
\* runs its Delete.
SpecCleanupFair == SpecFanout /\ \A c \in Ctxs : WF_vars(Cleanup(c))

\* Besides, the subscribers keep receiving: a send that stays possible is taken.
SpecDrainFair == SpecCleanupFair /\ WF_vars(\E k \in Selecting : Send(k))

\* The steps of a goroutine that calls RetryAndList, List and Find.
CallerStep(t) ==
    \/ \E op \in {"RetryAndList", "List", "Find"} : Call(t, op)
    \/ Lock(t)
    \/ Attempt(t)
    \/ Commit(t)
    \/ Unlock(t)
    \/ RLock(t)
    \/ List(t)
    \/ Find(t)
    \/ Return(t)

\* What a caller does once inside an operation, without waiting for anybody:
\* every connection attempt and metadata fetch returns.
Running(t) == Attempt(t) \/ Commit(t) \/ Unlock(t) \/ List(t) \/ Find(t)

\* Callers retrying and reading while subscribers register (all on one
\* channel) and then stall: nobody receives and no context is cancelled.
NextStalled ==
    \/ NewReturn
    \/ \E t \in Threads : CallerStep(t)
    \/ \E c \in Ctxs : Subscribe(c, "ch1")

SpecStalled == InitFanout /\ [][NextStalled]_vars

\* The callers are scheduled, and sync.RWMutex starves neither a writer (a
\* waiting writer holds new readers back) nor a reader (Unlock admits the
\* readers that waited before the next writer).
SpecStalledFair ==
    /\ SpecStalled
    /\ \A t \in Threads :
         WF_vars(Running(t)) /\ SF_vars(Lock(t)) /\ SF_vars(RLock(t))

\* A delivery goroutine is scheduled: once its context is done its select
\* completes, by one case or the other. Nothing is assumed of the receivers.
SpecSelectFair == SpecFanout /\ WF_vars(\E k \in Selecting : Abandon(k))

\* Concurrent callers of every operation while subscribers register.
NextOps ==
    \/ NewReturn
    \/ \E t \in Threads : ThreadStep(t)
    \/ \E c \in Ctxs, ch \in Chans : Subscribe(c, ch)

SpecOps == InitRegistry /\ [][NextOps]_vars

\* One goroutine retrying every registry the constructor can return without
\* pre-built clients, while subscribers register (all on one channel) and
\* receive.
InitRetry == Init /\ args.cs = <<>>

NextRetry ==
    \/ NewReturn
    \/ RetryStep(Publisher)
    \/ \E c \in Ctxs : Subscribe(c, "ch1")
    \/ \E k \in Selecting : Send(k)

SpecRetry == InitRetry /\ [][NextRetry]_vars

\* One goroutine calling every operation while subscribers register, cancel
\* and receive.
NextEvents ==
    \/ NewReturn
    \/ ThreadStep(Publisher)
    \/ SubscriberStep

SpecEvents == InitRegistry /\ [][NextEvents]_vars

\* ------------------------------------------------------------- construction claims
\* The endpoints whose attempt failed, in the order of the agents list.
RECURSIVE Unreachable(_, _)
Unreachable(agents, outs) ==
    IF agents = <<>> THEN <<>>
    ELSE (IF Head(outs).err # "" THEN <<Head(agents)>> ELSE <<>>)
            \o Unreachable(Tail(agents), Tail(outs))

ReachableAt(outs) == {i \in 1..Len(outs) : outs[i].err = ""}

DistinctIdentities(outs) ==
    \A i, j \in ReachableAt(outs) : i # j => outs[i].id # outs[j].id

\* C5: a construction without pre-built clients whose N reachable endpoints
\* report pairwise distinct identities leaves exactly N clients for List() and
\* exactly the M unreachable endpoints in failedAgents, in configured order.
C5_ConstructionCounts ==
    (args.live /\ args.cs = <<>> /\ DistinctIdentities(args.outs)) =>
        /\ Cardinality({clients[k] : k \in DOMAIN clients})
                = Cardinality(ReachableAt(args.outs))
        /\ Len(failedAgents) = Len(args.agents) - Cardinality(ReachableAt(args.outs))
        /\ failedAgents = Unreachable(args.agents, args.outs)

\* A construction with a reachable endpoint after an unreachable one.
C5_Witness ==
    /\ args.live /\ args.cs = <<>> /\ DistinctIdentities(args.outs)
    /\ Len(args.agents) = MaxAgents
    /\ args.outs[1].err # "" /\ args.outs[Len(args.outs)].err = ""
    /\ Len(failedAgents) >= 1 /\ Cardinality(DOMAIN clients) >= 1

\* The clients the constructor saw report identity id, by processing order:
\* the pre-built ones first, then the endpoints.
Reported(id) ==
    {[ord |-> i, endpoint |-> ""] :
        i \in {j \in 1..Len(args.cs) : args.cs[j].err = "" /\ args.cs[j].id = id}}
    \cup
    {[ord |-> Len(args.cs) + i, endpoint |-> args.agents[i]] :
        i \in {j \in 1..Len(args.outs) : args.outs[j].err = "" /\ args.outs[j].id = id}}

FirstWins ==
    /\ DOMAIN clients = {id \in HostIDs : Reported(id) # {}}
    /\ \A id \in DOMAIN clients :
         /\ [ord |-> clients[id].ord, endpoint |-> clients[id].endpoint] \in Reported(id)
         /\ \A r \in Reported(id) : clients[id].ord <= r.ord
    /\ failedAgents = Unreachable(args.agents, args.outs)

LastWins ==
    \E t \in Threads :
        /\ pc[t] = "r_loop"
        /\ Len(loc'[t].attempts) = Len(loc[t].attempts) + 1
        /\ LET a == loc'[t].attempts[Len(loc'[t].attempts)]
           IN  /\ a.err = "" /\ a.promo = npromo'
               /\ DOMAIN clients' = DOMAIN clients \cup {a.id}
               /\ clients'[a.id] = [id |-> a.id, endpoint |-> a.endpoint,
                                    ord |-> 0, promo |-> npromo']
               /\ \A k \in DOMAIN clients \ {a.id} : clients'[k] = clients[k]

\* C6: of the clients reporting one identity the constructor keeps the first
\* in processing order and drops the later ones (not into failedAgents); a
\* promotion stores its client under the identity whether or not one is there.
C6_DuplicateResolution ==
    /\ [](args.live => FirstWins)
    /\ [][npromo' # npromo => LastWins]_vars

\* A pass whose two promotions reported the same identity: the second client
\* is the one in clients.
C6_Witness ==
    \E t \in Threads :
        /\ Len(loc[t].attempts) = 2
        /\ loc[t].attempts[1].err = "" /\ loc[t].attempts[2].err = ""
        /\ loc[t].attempts[1].id = loc[t].attempts[2].id
        /\ clients[loc[t].attempts[2].id].promo = loc[t].attempts[2].promo

\* ------------------------------------------------------------- retry claims
Succeeded(as, e) == Cardinality({i \in 1..Len(as) : as[i].endpoint = e /\ as[i].err = ""})

C7_EmptyPass ==
    \A t \in Threads :
        (pc[t] \in {"r_unlock", "r_rlock", "r_list", "r_done"} /\ loc[t].rng = <<>>) =>
            /\ loc[t].attempts = <<>>
            /\ loc[t].errors = <<>>
            /\ clients = loc[t].base
            /\ failedAgents = <<>>
            /\ BagCardinality(tasks) = loc[t].ntasks
            /\ pc[t] = "r_done" => loc[t].list = {clients[k] : k \in DOMAIN clients}

\* An empty pass that returned while the registry had a promoted client and a
\* subscriber.
C7_Witness ==
    \E t \in Threads :
        /\ pc[t] = "r_done" /\ loc[t].rng = <<>>
        /\ failedAgents = <<>>
        /\ DOMAIN clients # {}
        /\ DOMAIN subscribers # {}

\* C8: with no pass overlapping it, Hosts() returns one entry per live client,
\* available exactly when that client's fetch succeeded, and one synthetic
\* entry per endpoint of failedAgents: ID = Name = Endpoint = the endpoint,
\* unavailable, of type "agent".
C8_Hosts ==
    \A t \in Threads :
        pc[t] = "h_done" =>
            /\ Cardinality(loc[t].live) + Len(loc[t].pending)
                    = Cardinality(DOMAIN clients) + Len(failedAgents)
            /\ \A k \in DOMAIN clients :
                    Cardinality({e \in loc[t].live : e.client = clients[k]}) = 1
            /\ \A e \in loc[t].live :
                    /\ \E k \in DOMAIN clients : e.client = clients[k]
                    /\ e.host.Available = (e.client \in loc[t].up)
                    /\ e.client \in loc[t].up => e.host.ID = e.client.id
            /\ Len(loc[t].pending) = Len(failedAgents)
            /\ \A i \in 1..Len(failedAgents) :
                    loc[t].pending[i] =
                        [ID |-> failedAgents[i], Name |-> failedAgents[i],
                         Endpoint |-> failedAgents[i], Available |-> FALSE,
                         Type |-> "agent"]

\* Hosts() over a client that answered, one that did not and a pending endpoint.
C8_Witness ==
    \E t \in Threads :
        /\ pc[t] = "h_done"
        /\ \E e \in loc[t].live : e.host.Available
        /\ \E e \in loc[t].live : ~e.host.Available
        /\ Len(loc[t].pending) >= 1

\* ------------------------------------------------------------- lock claims
\* Where a thread reads m.clients or m.failedAgents.
ReadPcs == {"r_list", "l_list", "f_find", "h_list", "h_map", "s_clients", "s_failed"}

\* Where a thread is inside the mutation pass of RetryAndList.
PassPcs == {"r_loop", "r_commit", "r_unlock"}

\* C9: every read of clients or failedAgents by List, Find, Hosts and String
\* is made holding the lock in shared mode and every write holding it in
\* exclusive mode, so nobody reads while another thread is inside the pass.
C9_ReadsUnderLock ==
    /\ \A t \in Threads : pc[t] \in ReadPcs => t \in mu.r
    /\ \A t \in Threads : pc[t] \in PassPcs => mu.w = t
    /\ \A t, u \in Threads : ~(pc[t] \in ReadPcs /\ pc[u] \in PassPcs)

\* What a pass run alone does to the registry: each attempt in turn, a failure
\* kept pending, a success stored under its identity.
RECURSIVE SeqPass(_, _, _, _)
SeqPass(as, i, clientMap, failed) ==
    IF i > Len(as) THEN [clients |-> clientMap, newFailed |-> failed]
    ELSE IF as[i].err # ""
    THEN SeqPass(as, i + 1, clientMap, Append(failed, as[i].endpoint))
    ELSE SeqPass(as, i + 1,
            [k \in DOMAIN clientMap \cup {as[i].id} |->
                IF k = as[i].id
                THEN [id |-> as[i].id, endpoint |-> as[i].endpoint, ord |-> 0,
                      promo |-> as[i].promo]
                ELSE clientMap[k]],
            failed)

\* C10: at most one pass is in its mutation section; it attempts the pending
\* endpoints it found, in order, and what it leaves when it unlocks is what the
\* same attempts made alone leave from the registry it found: the passes take
\* effect one after another, in the order they took the lock.
C10_Serialized ==
    /\ Cardinality({t \in Threads : pc[t] \in PassPcs}) <= 1
    /\ \A t \in Threads :
         pc[t] \in PassPcs =>
            LET done == SeqPass(loc[t].attempts, 1, loc[t].base, <<>>)
            IN  /\ mu = [w |-> t, r |-> {}]
                /\ \A i \in 1..Len(loc[t].attempts) :
                        loc[t].attempts[i].endpoint = loc[t].rng[i]
                /\ clients = done.clients
                /\ loc[t].newFailed = done.newFailed
                /\ pc[t] \in {"r_loop", "r_commit"} => failedAgents = loc[t].rng
                /\ pc[t] = "r_unlock" =>
                        /\ Len(loc[t].attempts) = Len(loc[t].rng)
                        /\ failedAgents = done.newFailed

\* A pass about to unlock after a promotion while another caller waits for the lock.
C10_Witness ==
    \E t, u \in Threads :
        /\ pc[t] = "r_unlock" /\ pc[u] = "r_lock"
        /\ \E i \in 1..Len(loc[t].attempts) : loc[t].attempts[i].err = ""

\* ------------------------------------------------------------- fan-out claims
\* The delivery goroutines started for context c by promotion p.
TasksFor(c, p) == {k \in BagToSet(tasks) : k.ctx = c /\ k.promo = p}

RECURSIVE SumCopies(_)
SumCopies(ks) ==
    IF ks = {} THEN 0
    ELSE LET k == CHOOSE x \in ks : TRUE
         IN  CopiesIn(k, tasks) + SumCopies(ks \ {k})

\* Each promotion of the running pass started exactly one delivery per entry
\* the subscribers map held at that moment, none for anybody else, each with
\* the entry's channel and the promoted host marked available; and a delivery
\* ends unsent only if its context is cancelled.
DispatchedOnce ==
    /\ \A t \in Threads : \A i \in 1..Len(loc[t].attempts) :
         LET a == loc[t].attempts[i]
         IN  a.err = "" =>
               \A c \in Ctxs :
                 /\ SumCopies(TasksFor(c, a.promo)) = IF c \in DOMAIN a.subs THEN 1 ELSE 0
                 /\ \A k \in TasksFor(c, a.promo) :
                       /\ k.ch = a.subs[c]
                       /\ k.host.ID = a.id
                       /\ k.host.Available = TRUE
    /\ \A k \in BagToSet(tasks) :
         /\ SumCopies(TasksFor(k.ctx, k.promo)) = 1
         /\ k.host.Available = TRUE
         /\ k.host.ID \in DOMAIN clients
         /\ clients[k.host.ID].promo >= k.promo
         /\ k.st = "abandoned" => k.ctx \in cancelled

PendingFor(c) == \E k \in Selecting : k.ctx = c

AllSentFor(c) == \A k \in BagToSet(tasks) : k.ctx = c => k.st = "sent"

\* C2 as stated: every subscriber registered and not cancelled when a promotion
\* is made gets exactly one event for it; so no delivery started for a context
\* that was not cancelled then may ever end unsent.
C2_LiveSubscriberReceives ==
    /\ DispatchedOnce
    /\ \A k \in BagToSet(tasks) : ~k.late => k.st # "abandoned"

\* C2 amended: every subscriber registered when a promotion is made gets exactly
\* one delivery for it, carrying Available = true and the promoted identity, and
\* if it keeps receiving the event reaches it once, unless its scope is
\* cancelled before it has taken the event.
C2_ReceivesUnlessCancelled ==
    /\ []DispatchedOnce
    /\ \A c \in Ctxs : PendingFor(c) ~> (c \in cancelled \/ AllSentFor(c))

\* Two subscribers on different channels that each got the promotion's event.
C2_Witness ==
    /\ Cardinality({k \in BagToSet(tasks) : k.st = "sent" /\ ~k.late}) = 2
    /\ \E k1, k2 \in BagToSet(tasks) :
         k1.ctx # k2.ctx /\ k1.ch # k2.ch /\ k1.promo = k2.promo
    /\ cancelled = {}

\* C3: no promotion of a pass called after a context was cancelled delivers an
\* event on that subscriber's channel.
C3_NoDeliveryAfterCancel ==
    \A k \in BagToSet(tasks) : k.stale => k.st # "sent"

\* C4: a stored entry whose context is cancelled is eventually removed, by the
\* goroutine Subscribe started alone; an entry whose context is not cancelled
\* is removed by no step.
C4_SelfRemoving ==
    /\ \A c \in Ctxs :
         (c \in DOMAIN subscribers /\ c \in cancelled) ~> (c \notin DOMAIN subscribers)
    /\ [][\A c \in Ctxs :
            (c \in DOMAIN subscribers /\ c \notin cancelled)
                => c \in DOMAIN subscribers']_vars

\* Every Subscribe call was for the one cancelled context, and its entry is gone.
C4_Witness ==
    \E c \in Ctxs :
        /\ nsub = MaxSubscribes
        /\ cancelled = {c}
        /\ DOMAIN subscribers = {}
        /\ \A d \in Ctxs : cleaners[d] = 0

\* ------------------------------------------------------------- later claims
\* C11: with subscribers that never receive and contexts that never fire, every
\* RetryAndList call that has started releases the lock and returns, the holder
\* of the lock always has a step it can take without any delivery ending, and
\* every List and Find call returns.
C11_PassNeverBlocks ==
    /\ \A t \in Threads : (pc[t] = "r_lock") ~> (pc[t] = "r_done" /\ mu.w # t)
    /\ \A t \in Threads : (pc[t] = "l_rlock") ~> (pc[t] = "l_done")
    /\ \A t \in Threads : (pc[t] = "f_rlock") ~> (pc[t] = "f_done")
    /\ [](\A t \in Threads : mu.w = t => ENABLED Running(t))

\* A pass has returned and the lock is free while the delivery it started is
\* still blocked on its channel, nobody cancelled.
C11_Witness ==
    \E t \in Threads :
        /\ pc[t] = "r_done" /\ mu.w = NoThread
        /\ \E i \in 1..Len(loc[t].attempts) : loc[t].attempts[i].err = ""
        /\ Selecting # {}
        /\ cancelled = {}

\* C12: whenever the lock is not held exclusively, no endpoint of failedAgents
\* is the endpoint a client of clients was built from, whatever the agents list
\* (an endpoint named twice included) and whatever the attempts did.
C12_PendingNotLive ==
    mu.w = NoThread =>
        \A i \in 1..Len(failedAgents) : \A k \in DOMAIN clients :
            clients[k].endpoint # failedAgents[i]

\* The attempts that failed, in the order they were made.
FailedAttempts(as) == SelectSeq(as, LAMBDA a : a.err # "")

\* Where a pass that found pending endpoints is once its loop has ended.
AfterLoopPcs == {"r_unlock", "r_rlock", "r_list", "r_done"}

\* C13: a pass attempts each entry of the failedAgents it found exactly once,
\* in list order, skipping none; it leaves in failedAgents exactly the entries
\* whose attempt failed (connection build or metadata fetch), in the same
\* order, and its errors are those failures in that order.
C13_OncePerPassInOrder ==
    \A t \in Threads :
        LET as == loc[t].attempts
            fs == FailedAttempts(as)
        IN  /\ pc[t] \in {"r_loop", "r_commit"} =>
                /\ failedAgents = loc[t].rng
                /\ Len(as) = loc[t].i - 1
                /\ pc[t] = "r_commit" <=> Len(as) = Len(loc[t].rng)
            /\ pc[t] \in PassPcs \cup AfterLoopPcs =>
                /\ Len(as) <= Len(loc[t].rng)
                /\ \A i \in 1..Len(as) : as[i].endpoint = loc[t].rng[i]
                /\ loc[t].errors = [j \in 1..Len(fs) |->
                                        [endpoint |-> fs[j].endpoint, err |-> fs[j].err]]
            /\ pc[t] \in AfterLoopPcs => Len(as) = Len(loc[t].rng)
            /\ (pc[t] = "r_unlock" /\ loc[t].rng # <<>>) =>
                /\ failedAgents = [j \in 1..Len(fs) |-> fs[j].endpoint]
                /\ Len(loc[t].errors) = Len(failedAgents)

\* A pass over two different endpoints has returned; the first failed to
\* connect, the second failed its metadata fetch, and both are still pending.
C13_Witness ==
    \E t \in Threads :
        /\ pc[t] = "r_done"
        /\ Len(loc[t].rng) = 2 /\ loc[t].rng[1] # loc[t].rng[2]
        /\ loc[t].errors = <<[endpoint |-> loc[t].rng[1], err |-> "connect"],
                             [endpoint |-> loc[t].rng[2], err |-> "host"]>>
        /\ failedAgents = loc[t].rng

\* The promotions a fan-out run can make: one per endpoint it starts with.
FanoutPromos == 1..Cardinality(UNION {Elems(a) : a \in FanoutAgents})

\* The delivery goroutine of promotion p for context c is still in its select.
Blocked(c, p) == \E k \in Selecting : k.ctx = c /\ k.promo = p

\* Every delivery is in its select or ended by one of the two cases, there is
\* one goroutine per context and promotion (so at most one send), and one that
\* ended without sending has its context cancelled.
OneEnding ==
    \A k \in BagToSet(tasks) :
        /\ k.st \in {"select", "sent", "abandoned"}
        /\ SumCopies(TasksFor(k.ctx, k.promo)) = 1
        /\ k.st = "abandoned" => k.ctx \in cancelled

\* A delivery that has ended stays as it ended.
EndedStays ==
    \A k \in BagToSet(tasks) :
        k.st # "select" => CopiesIn(k, tasks') >= CopiesIn(k, tasks)

\* C14: a delivery ends by sending its event once or by giving up because its
\* context is cancelled, never both and never otherwise; once the context is
\* cancelled it ends, and if the receivers keep receiving it ends: it can stay
\* blocked forever only with no receiver and no cancellation.
C14_DeliveryEnds ==
    /\ []OneEnding
    /\ [][EndedStays]_vars
    /\ [](\A k \in BagToSet(tasks) : k.promo \in FanoutPromos)
    /\ \A c \in Ctxs : \A p \in FanoutPromos :
         (Blocked(c, p) /\ c \in cancelled) ~> ~Blocked(c, p)
    /\ WF_vars(\E k \in Selecting : Send(k)) =>
         \A c \in Ctxs : \A p \in FanoutPromos : Blocked(c, p) ~> ~Blocked(c, p)

\* Of the two deliveries of one promotion one has sent its event and the other
\* has given up, its context cancelled.
C14_Witness ==
    \E k1, k2 \in BagToSet(tasks) :
        /\ k1.promo = k2.promo /\ k1.ctx # k2.ctx
        /\ k1.st = "sent" /\ k1.ctx \notin cancelled
        /\ k2.st = "abandoned" /\ k2.ctx \in cancelled

\* The delivery goroutines a step starts.
Started == {k \in BagToSet(tasks') : k.st = "select" /\ CopiesIn(k, tasks) < CopiesIn(k, tasks')}

\* C15: after Subscribe calls with one context and different channels the map
\* holds one entry for the context, carrying the channel of the latest call;
\* a Subscribe touches no other entry; every delivery a promotion starts from
\* then on goes to that channel and none to a channel it replaced; and once
\* the context is cancelled the entry is removed.
C15_Resubscribe ==
    /\ [](\A c \in Ctxs :
            replaced[c] # {} => c \in DOMAIN subscribers /\ subscribers[c] \notin replaced[c])
    /\ [][\A c \in Ctxs :
            cleaners'[c] > cleaners[c] =>
                /\ DOMAIN subscribers' = DOMAIN subscribers \cup {c}
                /\ \A d \in DOMAIN subscribers \ {c} : subscribers'[d] = subscribers[d]]_vars
    /\ [][\A k \in Started :
            /\ k.ctx \in DOMAIN subscribers
            /\ k.ch = subscribers[k.ctx]
            /\ k.ch \notin replaced[k.ctx]
            /\ \A j \in Started : j.ctx = k.ctx => j = k]_vars
    /\ \A c \in Ctxs :
            (replaced[c] # {} /\ c \in cancelled) ~> (c \notin DOMAIN subscribers)

\* The entry of a context holds its second channel, the first one replaced,
\* and a promotion made since has a delivery running on the second channel.
C15_Witness ==
    \E c \in Ctxs : \E k \in Selecting :
        /\ replaced[c] # {} /\ c \in DOMAIN subscribers
        /\ k.ctx = c /\ k.ch = subscribers[c] /\ k.ch \notin replaced[c]

\* The pre-built clients held in a client map.
Prebuilt(clientMap) == {clientMap[k] : k \in {x \in DOMAIN clientMap : clientMap[x].endpoint = ""}}

\* C16: the constructor leaves a pre-built client whose Host() failed out of
\* clients and out of failedAgents, which holds exactly the endpoints whose
\* attempt failed, and it returns; afterwards no step adds a pre-built client
\* to clients or an entry to failedAgents, and no pass attempts anything but
\* the endpoints of failedAgents.
C16_PrebuiltSkipped ==
    /\ [](args.live =>
            /\ \A i \in 1..Len(args.cs) :
                  args.cs[i].err # "" => \A c \in Prebuilt(clients) : c.ord # i
            /\ DOMAIN clients \subseteq HostIDs
            /\ failedAgents = Unreachable(args.agents, args.outs)
            /\ ENABLED NewReturn)
    /\ [](/\ Elems(failedAgents) \subseteq Endpoints
          /\ \A t \in Threads : \A i \in 1..Len(loc[t].attempts) :
                loc[t].attempts[i].endpoint \in Elems(loc[t].rng) \cap Endpoints)
    /\ [][/\ Prebuilt(clients') \subseteq Prebuilt(clients)
          /\ Elems(failedAgents') \subseteq Elems(failedAgents)]_vars

\* The constructor was given a pre-built client whose Host() failed and an
\* endpoint whose attempt failed: the endpoint is pending, the client nowhere.
C16_Witness ==
    /\ args.live
    /\ Len(args.cs) >= 1 /\ args.cs[1].err # ""
    /\ Len(args.agents) >= 1 /\ args.outs[1].err # ""
    /\ failedAgents = <<args.agents[1]>>
    /\ Prebuilt(clients) = {}

\* a is b with some entries taken out, the others in their order.
RECURSIVE IsSubSeq(_, _)
IsSubSeq(a, b) ==
    IF a = <<>> THEN TRUE
    ELSE IF b = <<>> THEN FALSE
    ELSE IF Head(a) = Head(b) THEN IsSubSeq(Tail(a), Tail(b))
    ELSE IsSubSeq(a, Tail(b))

\* The step is taken by a thread inside the mutation pass of RetryAndList.
PassStep ==
    \E t \in Threads :
        /\ mu.w = t /\ pc[t] \in {"r_loop", "r_commit"}
        /\ loc'[t] # loc[t] \/ pc'[t] # pc[t]

\* C17: no step takes a key out of clients; no step adds to failedAgents, each
\* new value being the old one with entries taken out; and only a step of a
\* RetryAndList pass changes either: List, Find, Hosts, String and Subscribe
\* leave both as they are.
C17_Monotone ==
    [][/\ DOMAIN clients \subseteq DOMAIN clients'
       /\ IsSubSeq(failedAgents', failedAgents)
       /\ (clients' # clients \/ failedAgents' # failedAgents) => PassStep]_vars

\* A pass has promoted the pending endpoint beside a client the constructor
\* stored, a subscriber is registered and another caller has run Hosts().
C17_Witness ==
    \E t, u \in Threads :
        /\ pc[t] = "r_done" /\ Len(loc[t].rng) >= 1 /\ failedAgents = <<>>
        /\ pc[u] = "h_done"
        /\ \E k \in DOMAIN clients : clients[k].promo = 0
        /\ \E k \in DOMAIN clients : clients[k].promo > 0
        /\ DOMAIN subscribers # {}

\* The deliveries the successful attempts of as started: one per entry the
\* subscribers map held at each.
RECURSIVE Dispatched(_)
Dispatched(as) ==
    IF as = <<>> THEN 0
    ELSE (IF Head(as).err = "" THEN Cardinality(DOMAIN Head(as).subs) ELSE 0)
            + Dispatched(Tail(as))

\* The step is a failed attempt of thread t.
FailedAttempt(t) ==
    /\ Len(loc'[t].attempts) = Len(loc[t].attempts) + 1
    /\ loc'[t].attempts[Len(loc'[t].attempts)].err # ""

\* C18: a pass returns as many errors as it leaves endpoints in failedAgents,
\* which is the endpoints attempted less those promoted; a failed attempt
\* changes neither clients nor the deliveries, its error is kept and the loop
\* goes on to the endpoints after it.
C18_ErrorsCounted ==
    /\ [](\A t \in Threads :
            LET as == loc[t].attempts
                ok == Len(as) - Len(FailedAttempts(as))
            IN  /\ pc[t] \in PassPcs \cup AfterLoopPcs =>
                    /\ Len(loc[t].errors) = Len(as) - ok
                    /\ Len(loc[t].newFailed) = Len(loc[t].errors)
                    /\ clients = SeqPass(as, 1, loc[t].base, <<>>).clients
                    /\ BagCardinality(tasks) = loc[t].ntasks + Dispatched(as)
                /\ pc[t] \in AfterLoopPcs =>
                    /\ Len(as) = Len(loc[t].rng)
                    /\ Len(loc[t].errors) = Len(loc[t].rng) - ok
                /\ pc[t] = "r_unlock" => Len(failedAgents) = Len(loc[t].errors))
    /\ [][\A t \in Threads :
            FailedAttempt(t) =>
                /\ clients' = clients /\ tasks' = tasks /\ failedAgents' = failedAgents
                /\ Len(loc'[t].errors) = Len(loc[t].errors) + 1
                /\ loc[t].i < Len(loc[t].rng) => pc'[t] = "r_loop"]_vars

\* A pass over two pending endpoints has returned: the first attempt failed,
\* the second promoted its endpoint and started the one subscriber's delivery;
\* one error, one endpoint left pending.
C18_Witness ==
    \E t \in Threads :
        /\ pc[t] = "r_done" /\ Len(loc[t].rng) = 2
        /\ loc[t].attempts[1].err # "" /\ loc[t].attempts[2].err = ""
        /\ Len(loc[t].errors) = 1 /\ Len(failedAgents) = 1
        /\ BagCardinality(tasks) = 1

\* C19: whatever RetryAndList pass overlaps it, the result of Hosts() has, for
\* every endpoint that was in failedAgents when it was called, either the
\* synthetic unavailable entry or the host of the client promoted from that
\* endpoint, and never both.
C19_HostsCoversPending ==
    \A t \in Threads :
        pc[t] = "h_done" =>
            \A i \in 1..Len(loc[t].found) :
                LET e == loc[t].found[i]
                    asPending == \E j \in 1..Len(loc[t].pending) :
                                    loc[t].pending[j] = PendingHost(e)
                    asLive == \E x \in loc[t].live :
                                    x.client.endpoint = e /\ x.client.promo > 0
                IN  (asPending \/ asLive) /\ ~(asPending /\ asLive)

\* The step is a successful attempt of thread t: the promotion numbered npromo'.
Promotion(t) ==
    /\ mu.w = t /\ pc[t] = "r_loop"
    /\ npromo' = npromo + 1
    /\ Len(loc'[t].attempts) = Len(loc[t].attempts) + 1
    /\ LET a == loc'[t].attempts[Len(loc'[t].attempts)]
       IN  /\ a.err = "" /\ a.promo = npromo'
           /\ \A k \in Started :
                 /\ k.promo = npromo' /\ k.host.ID = a.id
                 /\ k.ctx \in DOMAIN subscribers /\ k.ch = subscribers[k.ctx]

\* The events a step sends.
Sent == {k \in BagToSet(tasks') : k.st = "sent" /\ CopiesIn(k, tasks) < CopiesIn(k, tasks')}

\* C20: every delivery, running or ended, is for a promotion a pass made and
\* carries the promoted identity; deliveries are started only by the step of a
\* successful attempt, for that promotion and for the entries the map holds
\* then (so none for a client of the constructor, a failed attempt, List,
\* Find, Hosts or Subscribe, and none for an earlier promotion to a subscriber
\* registered since); and an event is sent only by a delivery that was running.
C20_EventsFromPromotions ==
    /\ [](\A k \in BagToSet(tasks) :
            /\ k.promo \in 1..npromo
            /\ k.host.ID \in DOMAIN clients
            /\ clients[k.host.ID].promo >= k.promo)
    /\ [][Started # {} => \E t \in Threads : Promotion(t)]_vars
    /\ [][BagCardinality(tasks') # BagCardinality(tasks) => Started # {}]_vars
    /\ [][nsub' # nsub => tasks' = tasks]_vars
    /\ [][\A k \in Sent : [k EXCEPT !.st = "select"] \in Selecting]_vars

\* The pass is over; the subscriber registered before the promotion has its
\* event, the one registered afterwards has no delivery, and clients also
\* holds a client of the constructor.
C20_Witness ==
    \E c, d \in DOMAIN subscribers :
        /\ pc[Publisher] = "idle" /\ npromo >= 1
        /\ \E k \in BagToSet(tasks) : k.ctx = c /\ k.st = "sent"
        /\ \A k \in BagToSet(tasks) : k.ctx # d
        /\ \E id \in DOMAIN clients : clients[id].promo = 0

====
